---- MODULE Spec2Model ----
(***************************************************************************)
(* Model of the Recording Gateway: netlify/functions/create-recording.js   *)
(* (exports.handler, validateLicense, getMaxDurationForPlan,               *)
(* callScreenshotOneAPI, incrementUsage), and of the License Status        *)
(* Endpoint: netlify/functions/validate-license.js (exports.handler).      *)
(* A run invokes one of the two handlers.                                  *)
(*                                                                         *)
(* One invocation of the handler is one run of the state machine: Invoke   *)
(* executes the handler synchronously up to its first suspension point     *)
(* (the await on fetch); the provider, the abort timer and the clock then  *)
(* move the in-flight call; the continuation of the handler runs in the    *)
(* action that settles the awaited promise.                                *)
(*                                                                         *)
(* JavaScript values are records tagged with their type (field t).         *)
(* Strings are sequences of chunks; license tokens and duration strings    *)
(* are sequences of single characters, so that .length, substring and      *)
(* parseInt are computed as the runtime computes them.  Numbers carry      *)
(* twice their value (field h) so that halves such as 5.5 are inputs.      *)
(***************************************************************************)
EXTENDS Integers, Sequences, FiniteSets, TLC

(***************************************************************************)
(* Bounds of the model.                                                    *)
(***************************************************************************)
MaxTokenLen == 11
MaxDuration == 9
MaxPayloadLen == 4
MaxClock == 10

(***************************************************************************)
(* JavaScript values.                                                      *)
(***************************************************************************)
Undefined == [t |-> "undefined"]
Str(s) == [t |-> "string", s |-> s]
Arr(s) == [t |-> "array", s |-> s]
Num(h) == [t |-> "number", nan |-> FALSE, h |-> h]
NaN == [t |-> "number", nan |-> TRUE, h |-> 0]
Bool(b) == [t |-> "boolean", b |-> b]
Int2Num(n) == Num(2 * n)

\* ToBoolean: undefined, false, "", 0 and NaN are falsy; every other value is
\* truthy (a non-empty string such as "0" and an empty array included).
Truthy(v) ==
  CASE v.t = "undefined" -> FALSE
    [] v.t = "boolean" -> v.b
    [] v.t = "string" -> v.s # <<>>
    [] v.t = "number" -> ~v.nan /\ v.h # 0
    [] OTHER -> TRUE

\* a || b
Or(a, b) == IF Truthy(a) THEN a ELSE b

DigitChars == <<"0", "1", "2", "3", "4", "5", "6", "7", "8", "9">>
IsDigit(c) == \E i \in 1..10 : DigitChars[i] = c
DigitVal(c) == (CHOOSE i \in 1..10 : DigitChars[i] = c) - 1

RECURSIVE NatToChars(_)
NatToChars(n) ==
  IF n < 10 THEN <<DigitChars[n + 1]>>
  ELSE NatToChars(n \div 10) \o <<DigitChars[(n % 10) + 1]>>

\* Number.prototype.toString / String(number) for the numbers of the model.
NumberToChars(v) ==
  IF v.nan THEN <<"N", "a", "N">>
  ELSE LET a == IF v.h < 0 THEN -v.h ELSE v.h
           body == NatToChars(a \div 2) \o (IF a % 2 = 1 THEN <<".", "5">> ELSE <<>>)
       IN  IF v.h < 0 THEN <<"-">> \o body ELSE body

\* String(v) for numbers and strings.
ToChars(v) == IF v.t = "number" THEN NumberToChars(v) ELSE v.s

RECURSIVE DigitPrefix(_)
DigitPrefix(s) ==
  IF s = <<>> \/ ~IsDigit(Head(s)) THEN <<>>
  ELSE <<Head(s)>> \o DigitPrefix(Tail(s))

RECURSIVE DigitsToNat(_, _)
DigitsToNat(s, acc) ==
  IF s = <<>> THEN acc ELSE DigitsToNat(Tail(s), 10 * acc + DigitVal(Head(s)))

\* parseInt(v): the argument is converted to a string; an optional sign and the
\* longest run of decimal digits are read, anything after it is ignored; no
\* digit at all gives NaN.
parseInt(v) ==
  LET s == ToChars(v)
      neg == s # <<>> /\ Head(s) = "-"
      rest == IF neg THEN Tail(s) ELSE s
      ds == DigitPrefix(rest)
  IN  IF ds = <<>> THEN NaN
      ELSE Int2Num(IF neg THEN -DigitsToNat(ds, 0) ELSE DigitsToNat(ds, 0))

\* a > b on numbers: false as soon as one side is NaN.
Greater(a, b) == ~a.nan /\ ~b.nan /\ a.h > b.h

\* Math.min(a, b)
MathMin(a, b) == IF a.nan \/ b.nan THEN NaN ELSE IF a.h <= b.h THEN a ELSE b

(***************************************************************************)
(* Program constants.                                                      *)
(***************************************************************************)
FreeMaxLen == 5
PaidMinLen == 10
FreeLimit == 5
StarterLimit == 7
DefaultRequested == 3
DefaultDuration == 5
ApiTimeout == 8
AbortAfterMs == 8000
UsageKeyPrefix == 8

FreeToken == <<"f", "r", "e", "e">>

(***************************************************************************)
(* validateLicense and getMaxDurationForPlan.                              *)
(***************************************************************************)
\* v.length: strings and arrays have one, every other value gives undefined,
\* and a comparison with undefined is false.
HasLength(v) == v.t \in {"string", "array"}
LengthLess(v, n) == HasLength(v) /\ Len(v.s) < n
LengthAtLeast(v, n) == HasLength(v) /\ Len(v.s) >= n

\* validateLicense with the paid threshold exclusive, as validate-license.js has it.
validateLicenseExclusive(licenseKey) ==
  IF licenseKey = Str(FreeToken) \/ ~Truthy(licenseKey) \/ LengthLess(licenseKey, FreeMaxLen)
  THEN [valid |-> TRUE, plan |-> "free"]
  ELSE IF LengthAtLeast(licenseKey, PaidMinLen + 1)
  THEN [valid |-> TRUE, plan |-> "starter"]
  ELSE [valid |-> FALSE, message |-> <<"Invalid license key format">>]

validateLicense(licenseKey) ==
  IF licenseKey = Str(FreeToken) \/ ~Truthy(licenseKey) \/ LengthLess(licenseKey, FreeMaxLen)
  THEN [valid |-> TRUE, plan |-> "free"]
  ELSE IF LengthAtLeast(licenseKey, PaidMinLen)
  THEN [valid |-> TRUE, plan |-> "starter"]
  ELSE [valid |-> FALSE, message |-> <<"Invalid license key format">>]

netlifyLimits ==
  [plan \in {"free", "starter", "pro", "agency"} |->
     IF plan = "free" THEN FreeLimit ELSE StarterLimit]

getMaxDurationForPlan(plan) ==
  IF plan \in DOMAIN netlifyLimits THEN Int2Num(netlifyLimits[plan])
  ELSE Int2Num(netlifyLimits["free"])

(***************************************************************************)
(* Buffer.toString('base64') and its inverse.                              *)
(***************************************************************************)
Base64Alphabet ==
  <<"A", "B", "C", "D", "E", "F", "G", "H", "I", "J", "K", "L", "M",
    "N", "O", "P", "Q", "R", "S", "T", "U", "V", "W", "X", "Y", "Z",
    "a", "b", "c", "d", "e", "f", "g", "h", "i", "j", "k", "l", "m",
    "n", "o", "p", "q", "r", "s", "t", "u", "v", "w", "x", "y", "z",
    "0", "1", "2", "3", "4", "5", "6", "7", "8", "9", "+", "/">>
Base64Char(n) == Base64Alphabet[n + 1]
Base64Index(c) == (CHOOSE i \in 1..64 : Base64Alphabet[i] = c) - 1

\* An encoder that drops the bits of the last partial group.
RECURSIVE Base64EncodeLossy(_)
Base64EncodeLossy(bytes) ==
  IF bytes = <<>> THEN <<>>
  ELSE IF Len(bytes) = 1 THEN
    <<Base64Char(bytes[1] \div 4), Base64Char(0), "=", "=">>
  ELSE IF Len(bytes) = 2 THEN
    <<Base64Char(bytes[1] \div 4),
      Base64Char((bytes[1] % 4) * 16 + bytes[2] \div 16),
      Base64Char(0), "=">>
  ELSE
    <<Base64Char(bytes[1] \div 4),
      Base64Char((bytes[1] % 4) * 16 + bytes[2] \div 16),
      Base64Char((bytes[2] % 16) * 4 + bytes[3] \div 64),
      Base64Char(bytes[3] % 64)>> \o Base64EncodeLossy(SubSeq(bytes, 4, Len(bytes)))

RECURSIVE Base64Encode(_)
Base64Encode(bytes) ==
  IF bytes = <<>> THEN <<>>
  ELSE IF Len(bytes) = 1 THEN
    <<Base64Char(bytes[1] \div 4), Base64Char((bytes[1] % 4) * 16), "=", "=">>
  ELSE IF Len(bytes) = 2 THEN
    <<Base64Char(bytes[1] \div 4),
      Base64Char((bytes[1] % 4) * 16 + bytes[2] \div 16),
      Base64Char((bytes[2] % 16) * 4), "=">>
  ELSE
    <<Base64Char(bytes[1] \div 4),
      Base64Char((bytes[1] % 4) * 16 + bytes[2] \div 16),
      Base64Char((bytes[2] % 16) * 4 + bytes[3] \div 64),
      Base64Char(bytes[3] % 64)>> \o Base64Encode(SubSeq(bytes, 4, Len(bytes)))

\* The decoding a client applies to video_data.
RECURSIVE Base64Decode(_)
Base64Decode(chars) ==
  IF Len(chars) < 4 THEN <<>>
  ELSE
    LET a == Base64Index(chars[1])
        b == Base64Index(chars[2])
        rest == SubSeq(chars, 5, Len(chars))
    IN  IF chars[3] = "=" THEN <<a * 4 + b \div 16>>
        ELSE LET c == Base64Index(chars[3])
             IN  IF chars[4] = "=" THEN <<a * 4 + b \div 16, (b % 16) * 16 + c \div 4>>
                 ELSE <<a * 4 + b \div 16, (b % 16) * 16 + c \div 4,
                        (c % 4) * 64 + Base64Index(chars[4])>> \o Base64Decode(rest)

(***************************************************************************)
(* The request (event), the configuration and the responses.               *)
(***************************************************************************)
\* event.body: absent or empty (parsed as '{}'), not well-formed JSON, the JSON
\* text null, a JSON scalar, or a JSON object with the fields the handler reads.
NoFields == [url |-> Undefined, options |-> Undefined, license_key |-> Undefined,
             site_url |-> Undefined]
BodyOf(kind) == [kind |-> kind] @@ NoFields
ObjectBody(url, options, license_key) ==
  [kind |-> "object", url |-> url, options |-> options, license_key |-> license_key,
   site_url |-> Str(<<"https://site.example">>)]
Options(duration) == [t |-> "object", duration |-> duration, format |-> Undefined]
Event(method, xPluginLicense, body) ==
  [httpMethod |-> method, xPluginLicense |-> xPluginLicense, body |-> body]

headers ==
  [h \in {"Access-Control-Allow-Origin", "Access-Control-Allow-Headers",
          "Access-Control-Allow-Methods", "Content-Type"} |->
     CASE h = "Access-Control-Allow-Origin" -> "*"
       [] h = "Access-Control-Allow-Headers" -> "Content-Type, X-Plugin-License, User-Agent"
       [] h = "Access-Control-Allow-Methods" -> "POST, OPTIONS"
       [] OTHER -> "application/json"]

Response(status, body) == [statusCode |-> status, headers |-> headers, body |-> body]
NoResponse == [statusCode |-> 0]

\* What the synchronous part of the handler ends in: a response, or the
\* outbound call (the handler is then suspended on fetch).
Return(resp, parsed, lic) ==
  [kind |-> "return", response |-> resp, parsed |-> parsed, license |-> lic]
Call(params, lic) == [kind |-> "call", params |-> params, parsed |-> TRUE, license |-> lic]

\* The handler's locals licenseHeader (line 43) and licenseCheck (line 58), as
\* far as the handler got.
NoLicense == [resolved |-> FALSE, checked |-> FALSE]
Resolved(token) == [resolved |-> TRUE, checked |-> FALSE, token |-> token]
Checked(token, check) ==
  [resolved |-> TRUE, checked |-> TRUE, token |-> token, check |-> check]

\* options?.duration
OptionsDuration(options) == IF options.t = "object" THEN options.duration ELSE Undefined
OptionsFormat(options) == IF options.t = "object" THEN options.format ELSE Undefined

\* JSON.parse(event.body || '{}') followed by the destructuring of line 41.
ParseThrows(body) == body.kind = "malformed"
DestructureThrows(body) == body.kind = "null"

\* event.headers['x-plugin-license'] || license_key || 'free'
licenseHeader(ev) ==
  Or(ev.xPluginLicense, Or(ev.body.license_key, Str(FreeToken)))

\* parseInt(options?.duration || '3')
requestedDuration(ev) ==
  parseInt(Or(OptionsDuration(ev.body.options),
              Str(NatToChars(DefaultRequested))))

maxDuration(ev) == getMaxDurationForPlan(validateLicense(licenseHeader(ev)).plan)

DurationExceeded(requested, max) == Greater(requested, max)

safeDuration(event) == MathMin(requestedDuration(event), maxDuration(event))

\* Lines 15 and 19: the method check.
IsPreflight(method) == method = "OPTIONS"
MethodCheckDropped(method) == TRUE
MethodAllowed(method) == method = "POST"

\* Line 29: !process.env.SCREENSHOTONE_API_KEY
EnvKeyCheckDropped(key) == FALSE
EnvKeyMissing(key) == ~Truthy(key)

\* Line 165: !screenshotOneKey
KeyMissing(key) == ~Truthy(key)

\* The query parameters of the outbound call (URLSearchParams turns every
\* value into a string).
ApiParams(key, url, options) ==
  [access_key |-> ToChars(key),
   url |-> ToChars(url),
   scenario |-> <<"scroll">>,
   format |-> ToChars(Or(OptionsFormat(options), Str(<<"mp4">>))),
   duration |-> ToChars(Or(options.duration, Str(NatToChars(DefaultDuration)))),
   timeout |-> NatToChars(ApiTimeout)]

\* callScreenshotOneAPI up to the await on fetch.
callScreenshotOneAPI(key, url, options) ==
  IF KeyMissing(key)
  THEN [started |-> FALSE,
        result |-> [success |-> FALSE, error |-> <<"ScreenshotOne API key not configured">>]]
  ELSE [started |-> TRUE, params |-> ApiParams(key, url, options)]

FailureResponse(error) ==
  Response(500, [message |-> <<"Failed to create recording: ">> \o error])

\* The catch of the handler answering without the headers.
InternalErrorBare(message) ==
  [statusCode |-> 500, body |-> [message |-> <<"Internal server error: ">> \o message]]

InternalError(message) ==
  Response(500, [message |-> <<"Internal server error: ">> \o message])

DurationLimitResponse(max, requested) ==
  Response(400,
    [message |-> <<"Recording duration limited to ">> \o ToChars(max)
                  \o <<" seconds on current plan. Upgrade for longer recordings.">>,
     error |-> "DURATION_LIMIT_EXCEEDED",
     max_duration |-> max,
     requested_duration |-> requested])

\* exports.handler from its first line to its first suspension point.
Gate(ev, key) ==
  IF IsPreflight(ev.httpMethod) THEN
    Return(Response(200, [message |-> <<"CORS preflight successful">>]), FALSE, NoLicense)
  ELSE IF ~MethodAllowed(ev.httpMethod) THEN
    Return(Response(405, [message |-> <<"Method not allowed. Use POST.">>]), FALSE, NoLicense)
  ELSE IF EnvKeyMissing(key) THEN
    Return(Response(500,
      [message |-> <<"Server configuration error: ScreenshotOne API key not configured">>,
       error |-> "MISSING_API_KEY"]), FALSE, NoLicense)
  ELSE IF ParseThrows(ev.body) THEN
    Return(InternalError(<<"Unexpected token in JSON">>), TRUE, NoLicense)
  ELSE IF DestructureThrows(ev.body) THEN
    Return(InternalError(<<"Cannot destructure property 'url' of 'requestData' as it is null.">>),
           TRUE, NoLicense)
  ELSE IF ~Truthy(ev.body.url) THEN
    Return(Response(400, [message |-> <<"URL is required">>]), TRUE,
           Resolved(licenseHeader(ev)))
  ELSE
    LET licenseCheck == validateLicense(licenseHeader(ev))
        lic == Checked(licenseHeader(ev), licenseCheck)
    IN
    IF ~licenseCheck.valid THEN
      Return(Response(403, [message |-> licenseCheck.message]), TRUE, lic)
    ELSE IF DurationExceeded(requestedDuration(ev), maxDuration(ev)) THEN
      Return(DurationLimitResponse(maxDuration(ev), requestedDuration(ev)), TRUE, lic)
    ELSE
      LET call == callScreenshotOneAPI(key, ev.body.url,
                    [t |-> "object",
                     format |-> OptionsFormat(ev.body.options),
                     duration |-> Str(ToChars(safeDuration(ev)))])
      IN  IF call.started THEN Call(call.params, lic)
          ELSE Return(FailureResponse(call.result.error), TRUE, lic)

(***************************************************************************)
(* The rest of callScreenshotOneAPI and of the handler: what runs when the *)
(* awaited fetch, body read or abort settles.                              *)
(***************************************************************************)
ResponseOk(status) == status >= 200 /\ status < 300

ApiUrl(params) ==
  <<"https://api.screenshotone.com/animate?", "access_key=">> \o params.access_key
    \o <<"&url=">> \o params.url \o <<"&duration=">> \o params.duration
    \o <<"&timeout=">> \o params.timeout

EmptyBufferUnchecked(videoBuffer) == FALSE
EmptyBuffer(videoBuffer) == Len(videoBuffer) = 0

\* Lines 215-231: the provider answered 2xx and the body was read.
BufferResult(videoBuffer, duration, elapsed) ==
  IF EmptyBuffer(videoBuffer)
  THEN [success |-> FALSE, error |-> <<"ScreenshotOne returned empty response">>]
  ELSE [success |-> TRUE,
        video_data |-> Base64Encode(videoBuffer),
        file_size |-> Len(videoBuffer),
        duration |-> parseInt(Str(duration)),
        actual_duration |-> elapsed]

\* Lines 232-238: the provider answered with an error status.
ErrorStatusResult(status, errorText) ==
  [success |-> FALSE,
   error |-> <<"ScreenshotOne API failed with status ">> \o NatToChars(status)
             \o <<": ">> \o errorText]

\* Lines 240-246: the catch of callScreenshotOneAPI.
TimeoutResult ==
  [success |-> FALSE,
   error |-> <<"ScreenshotOne API request timed out (", "8", " seconds)">>]
NetworkErrorResult(message) ==
  [success |-> FALSE, error |-> <<"Network error: ">> \o message]

\* incrementUsage: licenseKey?.substring(0, 8) exists on strings only.
UsageThrows(licenseKey) == licenseKey.t # "string"
UsageRecord(licenseKey, siteUrl, targetUrl, timestamp) ==
  [timestamp |-> timestamp,
   license_key |-> SubSeq(licenseKey.s, 1,
                     IF Len(licenseKey.s) < UsageKeyPrefix THEN Len(licenseKey.s)
                     ELSE UsageKeyPrefix) \o <<"...">>,
   site_url |-> siteUrl]

SuccessResponse(result, safe) ==
  Response(200,
    [success |-> TRUE,
     video_data |-> result.video_data,
     file_size |-> result.file_size,
     duration |-> safe,
     actual_duration |-> result.actual_duration,
     message |-> <<"Recording created successfully (">> \o ToChars(safe) \o <<"s)">>])

\* Lines 96-133: the handler once callScreenshotOneAPI has returned.
AfterCall(result, ev) ==
  IF result.success THEN
    IF UsageThrows(licenseHeader(ev))
    THEN InternalError(<<"licenseKey?.substring is not a function">>)
    ELSE SuccessResponse(result, safeDuration(ev))
  ELSE FailureResponse(result.error)

UsageAfter(result, ev, log, timestamp) ==
  IF result.success /\ ~UsageThrows(licenseHeader(ev))
  THEN Append(log, UsageRecord(licenseHeader(ev), ev.body.site_url, ev.body.url, timestamp))
  ELSE log

(***************************************************************************)
(* netlify/functions/validate-license.js: the License Status Endpoint.     *)
(***************************************************************************)
ValidLengthAbove == 10

validateLicenseHeaders ==
  [h \in {"Access-Control-Allow-Origin", "Access-Control-Allow-Headers",
          "Access-Control-Allow-Methods", "Content-Type"} |->
     CASE h = "Access-Control-Allow-Origin" -> "*"
       [] h = "Access-Control-Allow-Headers" -> "Content-Type, X-Plugin-License"
       [] h = "Access-Control-Allow-Methods" -> "POST, GET, OPTIONS"
       [] OTHER -> "application/json"]

LicenseResponse(status, body) ==
  [statusCode |-> status, headers |-> validateLicenseHeaders, body |-> body]

\* JSON.parse(event.body) followed by the destructuring of line 44: there is
\* no '{}' default here, so an absent or empty body throws as well.
LicenseParseThrows(body) == body.kind \in {"empty", "malformed", "null"}

LengthGreater(v, n) == HasLength(v) /\ Len(v.s) > n

\* license_key === 'free' || (license_key && license_key.length > 10): the
\* value of && is its left operand when that is falsy.
isValid(license_key) ==
  IF license_key = Str(FreeToken) THEN Bool(TRUE)
  ELSE IF ~Truthy(license_key) THEN license_key
  ELSE Bool(LengthGreater(license_key, ValidLengthAbove))

plan(license_key) == IF license_key = Str(FreeToken) THEN "free" ELSE "starter"

\* exports.handler of validate-license.js.
validateLicenseHandler(ev, timestamp) ==
  IF ev.httpMethod = "OPTIONS" THEN
    LicenseResponse(200, [message |-> <<"CORS OK">>])
  ELSE IF ev.httpMethod = "GET" THEN
    LicenseResponse(200, [message |-> <<"Screen Recorder Pro API is online">>,
                          timestamp |-> timestamp,
                          version |-> <<"1.0.0">>])
  ELSE IF ev.httpMethod # "POST" THEN
    LicenseResponse(405, [message |-> <<"Method not allowed">>])
  ELSE IF LicenseParseThrows(ev.body) THEN
    LicenseResponse(500, [message |-> <<"Validation error">>,
                          error |-> <<"Unexpected token in JSON">>])
  ELSE
    LicenseResponse(IF Truthy(isValid(ev.body.license_key)) THEN 200 ELSE 403,
      [valid |-> isValid(ev.body.license_key),
       plan |-> plan(ev.body.license_key),
       site_url |-> ev.body.site_url,
       message |-> IF Truthy(isValid(ev.body.license_key))
                   THEN <<"License valid">> ELSE <<"Invalid license">>])

(***************************************************************************)
(* State.                                                                  *)
(***************************************************************************)
VARIABLES
  pc,           \* "idle", "fetch" (awaiting fetch), "read" (awaiting the body), "done"
  event,        \* the request of this invocation
  apiKey,       \* process.env.SCREENSHOTONE_API_KEY
  response,     \* what the handler returned
  bodyParsed,   \* JSON.parse was called on the request body
  outbound,     \* the outbound calls made, in order
  now,          \* the clock, in seconds
  startTime,    \* Date.now() before the fetch
  timer,        \* the abort timer: armed, and when it is due
  aborted,      \* controller.abort() was called
  upstream,     \* what the provider did to the call
  usageLog,     \* the usage records emitted
  license,      \* the handler's locals licenseHeader and licenseCheck
  validation    \* the invocation of validate-license.js: position, request, response

vars == <<pc, event, apiKey, response, bodyParsed, outbound, now, startTime, timer,
          aborted, upstream, usageLog, license, validation>>

NoEvent == Event("NONE", Undefined, BodyOf("empty"))
NoUpstream == [state |-> "none", status |-> 0, data |-> <<>>, elapsed |-> 0]
NoValidation == [pc |-> "idle", event |-> NoEvent, response |-> NoResponse]

Init ==
  /\ pc = "idle"
  /\ event = NoEvent
  /\ apiKey = Undefined
  /\ response = NoResponse
  /\ bodyParsed = FALSE
  /\ outbound = <<>>
  /\ now = 0
  /\ startTime = 0
  /\ timer = [armed |-> FALSE, due |-> 0]
  /\ aborted = FALSE
  /\ upstream = NoUpstream
  /\ usageLog = <<>>
  /\ license = NoLicense
  /\ validation = NoValidation

\* The platform calls exports.handler(event) with the configuration key.
Invoke(ev, key) ==
  /\ pc = "idle"
  /\ validation.pc = "idle"
  /\ event' = ev
  /\ apiKey' = key
  /\ LET g == Gate(ev, key) IN
       /\ bodyParsed' = g.parsed
       /\ license' = g.license
       /\ IF g.kind = "call"
          THEN /\ pc' = "fetch"
               /\ outbound' = Append(outbound, g.params)
               /\ startTime' = now
               /\ timer' = [armed |-> TRUE, due |-> now + AbortAfterMs \div 1000]
               /\ response' = response
          ELSE /\ pc' = "done"
               /\ response' = g.response
               /\ UNCHANGED <<outbound, startTime, timer>>
  /\ UNCHANGED <<now, aborted, upstream, usageLog, validation>>

\* The platform calls exports.handler(event) of validate-license.js: the
\* handler has no suspension point and returns at once.
Validate(ev) ==
  /\ pc = "idle"
  /\ validation.pc = "idle"
  /\ validation' = [pc |-> "done", event |-> ev,
                    response |-> validateLicenseHandler(ev, now)]
  /\ UNCHANGED <<pc, event, apiKey, response, bodyParsed, outbound, now, startTime,
                 timer, aborted, upstream, usageLog, license>>

\* A second passes.  An armed timer fires when it is due: the clock does not
\* pass it.
Tick ==
  /\ pc \in {"fetch", "read"} \/ (pc = "done" /\ timer.armed)
  /\ now < MaxClock
  /\ timer.armed => now < timer.due
  /\ now' = now + 1
  /\ UNCHANGED <<pc, event, apiKey, response, bodyParsed, outbound, startTime, timer,
                 aborted, upstream, usageLog, license, validation>>

Finish(result) ==
  /\ pc' = "done"
  /\ response' = AfterCall(result, event)
  /\ usageLog' = UsageAfter(result, event, usageLog, now)

\* Line 208 left out: the timer stays armed.
clearTimeoutDropped(timeoutId) == timeoutId

\* clearTimeout(timeoutId)
clearTimeout(timeoutId) == [timeoutId EXCEPT !.armed = FALSE]

\* The provider's status line and headers arrive: fetch resolves, the timer is
\* cleared (line 208) and the handler awaits the body.
RespondHeaders(status) ==
  /\ pc = "fetch"
  /\ pc' = "read"
  /\ timer' = clearTimeout(timer)
  /\ upstream' = [state |-> "headers", status |-> status, data |-> <<>>,
                  elapsed |-> now - startTime]
  /\ UNCHANGED <<event, apiKey, response, bodyParsed, outbound, now, startTime, aborted,
                 usageLog, license, validation>>

\* response.buffer() resolves with the body of a 2xx answer.
BufferArrives(bytes) ==
  /\ pc = "read"
  /\ ResponseOk(upstream.status)
  /\ upstream' = [upstream EXCEPT !.state = "body", !.data = bytes]
  /\ Finish(BufferResult(bytes, outbound[Len(outbound)].duration, upstream.elapsed))
  /\ UNCHANGED <<event, apiKey, bodyParsed, outbound, now, startTime, timer, aborted,
                 license, validation>>

\* response.text() resolves with the error body of a non-2xx answer.
TextArrives(text) ==
  /\ pc = "read"
  /\ ~ResponseOk(upstream.status)
  /\ upstream' = [upstream EXCEPT !.state = "body", !.data = text]
  /\ Finish(ErrorStatusResult(upstream.status, text))
  /\ UNCHANGED <<event, apiKey, bodyParsed, outbound, now, startTime, timer, aborted,
                 license, validation>>

\* The body stream fails: buffer() or text() rejects with a FetchError.
ReadFails ==
  /\ pc = "read"
  /\ upstream' = [upstream EXCEPT !.state = "readerror"]
  /\ Finish(NetworkErrorResult(<<"Invalid response body while trying to fetch ">>
                               \o ApiUrl(outbound[Len(outbound)])))
  /\ UNCHANGED <<event, apiKey, bodyParsed, outbound, now, startTime, timer, aborted,
                 license, validation>>

\* The connection fails: fetch rejects with a FetchError naming the request
\* URL.  Line 208 is not reached, so the timer stays armed.
FetchFails ==
  /\ pc = "fetch"
  /\ upstream' = [upstream EXCEPT !.state = "neterror"]
  /\ Finish(NetworkErrorResult(<<"request to ">> \o ApiUrl(outbound[Len(outbound)])
                               \o <<" failed, reason: connect ECONNREFUSED">>))
  /\ UNCHANGED <<event, apiKey, bodyParsed, outbound, now, startTime, timer, aborted,
                 license, validation>>

\* The abort timer fires while fetch is pending: controller.abort() rejects
\* fetch with an AbortError.
TimerFire ==
  /\ pc = "fetch"
  /\ timer.armed
  /\ now >= timer.due
  /\ timer' = [timer EXCEPT !.armed = FALSE]
  /\ aborted' = TRUE
  /\ Finish(TimeoutResult)
  /\ UNCHANGED <<event, apiKey, bodyParsed, outbound, now, startTime, upstream,
                 license, validation>>

\* The timer left armed by a failed fetch fires after the handler returned.
LateTimerFire ==
  /\ pc = "done"
  /\ timer.armed
  /\ now >= timer.due
  /\ timer' = [timer EXCEPT !.armed = FALSE]
  /\ aborted' = TRUE
  /\ UNCHANGED <<pc, event, apiKey, response, bodyParsed, outbound, now, startTime,
                 upstream, usageLog, license, validation>>

(***************************************************************************)
(* The inputs the model draws from.                                        *)
(***************************************************************************)
Rep(n) == [i \in 1..n |-> "k"]
Tokens == {Str(Rep(n)) : n \in 0..MaxTokenLen} \cup {Str(FreeToken)}
ArrayKey == Arr(<<"a", "b">>)
HeaderValues == {Undefined} \cup Tokens
LicenseKeyValues == {Undefined, ArrayKey} \cup Tokens
SomeLicenseKeys == {Undefined, ArrayKey, Str(Rep(3)), Str(Rep(7)), Str(Rep(PaidMinLen))}

GoodUrl == Str(<<"https://example.com/page">>)
BadUrl == Str(<<"not a url">>)
UrlValues == {Undefined, Str(<<>>), GoodUrl, BadUrl}

Halves == (0 - 2)..(2 * MaxDuration)
DurationValues ==
  {Undefined, Str(<<>>), Str(<<"a", "b", "c">>)}
    \cup {Num(h) : h \in Halves} \cup {Str(NumberToChars(Num(h))) : h \in Halves}
OptionsValues == {Undefined} \cup {Options(d) : d \in DurationValues}

ApiKeys == {Undefined, Str(<<>>), Str(<<"SECRET-ACCESS-KEY">>)}

\* Requests that vary the license token, the duration, the url, requests with
\* a body that is no JSON object, and requests of other methods.
LicenseEvents ==
  {Event("POST", h, ObjectBody(u, Undefined, k)) :
     h \in HeaderValues, u \in {Undefined, GoodUrl}, k \in SomeLicenseKeys}
  \cup {Event("POST", h, ObjectBody(u, Undefined, k)) :
     h \in {Undefined, Str(<<>>)}, u \in {Undefined, GoodUrl}, k \in LicenseKeyValues}
DurationEvents ==
  {Event("POST", Undefined, ObjectBody(GoodUrl, o, k)) :
     o \in OptionsValues, k \in {Undefined, Str(Rep(PaidMinLen))}}
UrlEvents ==
  {Event("POST", h, ObjectBody(u, o, Undefined)) :
     h \in {Undefined, Str(Rep(7))}, u \in UrlValues,
     o \in {Undefined, Options(Num(2 * MaxDuration))}}
BodyEvents ==
  {Event("POST", h, BodyOf(kind)) :
     h \in {Undefined, Str(Rep(7)), Str(Rep(PaidMinLen))},
     kind \in {"empty", "malformed", "null", "scalar"}}
MethodEvents ==
  {Event(m, h, b) :
     m \in {"OPTIONS", "GET", "DELETE"},
     h \in {Undefined, Str(Rep(7))},
     b \in {BodyOf("empty"), BodyOf("malformed"),
            ObjectBody(GoodUrl, Options(Num(4)), Undefined)}}
Events ==
  LicenseEvents \cup DurationEvents \cup UrlEvents \cup BodyEvents \cup MethodEvents

\* The requests to validate-license.js.
LicenseRequests ==
  {Event("POST", Undefined, ObjectBody(Undefined, Undefined, k)) : k \in LicenseKeyValues}
  \cup {Event("POST", Undefined, BodyOf(kind)) :
          kind \in {"empty", "malformed", "null", "scalar"}}
  \cup {Event(m, Undefined, b) :
          m \in {"OPTIONS", "GET", "DELETE"},
          b \in {BodyOf("empty"), ObjectBody(Undefined, Undefined, Str(Rep(PaidMinLen)))}}

\* A few requests that reach the provider, for the runs that vary the provider.
CallEvents ==
  {Event("POST", Undefined, ObjectBody(GoodUrl, o, k)) :
     o \in {Undefined, Options(Num(2 * StarterLimit))},
     k \in {Undefined, ArrayKey, Str(Rep(PaidMinLen))}}

Statuses == {200, 204, 404, 500}
ErrorTexts == {<<>>, <<"Invalid access key">>}
ByteSamples == {0, 77, 255}
BytesUpTo(n) == UNION {[1..m -> ByteSamples] : m \in 0..n}

(***************************************************************************)
(* Specifications.  Spec draws the request from Events and keeps the       *)
(* provider's payloads short; SpecProvider keeps the requests few and      *)
(* draws the payloads from every byte sequence up to MaxPayloadLen.        *)
(***************************************************************************)
InvokeAny == \E ev \in Events, key \in ApiKeys : Invoke(ev, key)
InvokeCall == \E ev \in CallEvents, key \in ApiKeys : Invoke(ev, key)
RespondAny == \E status \in Statuses : RespondHeaders(status)
BufferShort == \E bytes \in BytesUpTo(1) : BufferArrives(bytes)
BufferAny == \E bytes \in BytesUpTo(MaxPayloadLen) : BufferArrives(bytes)
TextAny == \E text \in ErrorTexts : TextArrives(text)
ValidateAny == \E ev \in LicenseRequests : Validate(ev)

Next ==
  \/ InvokeAny
  \/ ValidateAny
  \/ Tick
  \/ RespondAny
  \/ BufferShort
  \/ TextAny
  \/ ReadFails
  \/ FetchFails
  \/ TimerFire
  \/ LateTimerFire

Spec == Init /\ [][Next]_vars

NextProvider ==
  \/ InvokeCall
  \/ Tick
  \/ RespondAny
  \/ BufferAny
  \/ TextAny
  \/ ReadFails
  \/ FetchFails
  \/ TimerFire
  \/ LateTimerFire

SpecProvider == Init /\ [][NextProvider]_vars

(***************************************************************************)
(* Vocabulary of the properties.                                           *)
(***************************************************************************)
Has(rec, f) == f \in DOMAIN rec
Invoked == pc # "idle"
Returned == pc = "done"
IsPost == event.httpMethod = "POST"
KeyAbsent == apiKey = Undefined \/ apiKey = Str(<<>>)
NoOutboundCall == outbound = <<>>
ErrorCode(code) == Has(response.body, "error") /\ response.body.error = code
IsSuccess200 ==
  /\ response.statusCode = 200
  /\ Has(response.body, "success")
  /\ response.body.success = TRUE

\* The request got as far as the license gate: POST, key configured, body
\* parsed into an object (or '{}'), url present.
JsonBody == event.body.kind \in {"empty", "scalar", "object"}
UrlPresent == event.body.url.t = "string" /\ event.body.url.s # <<>>
ReachedLicenseGate == Invoked /\ IsPost /\ ~KeyAbsent /\ JsonBody /\ UrlPresent

\* The token the request carries: the header if it has one (non-empty), else
\* the body's license_key, else "free".
Present(v) == v.t # "undefined" /\ v.s # <<>>
CarriedToken ==
  IF Present(event.xPluginLicense) THEN event.xPluginLicense
  ELSE IF Present(event.body.license_key) THEN event.body.license_key
  ELSE Str(<<"f", "r", "e", "e">>)
TokenLen == Len(CarriedToken.s)

\* The duration the caller sent, and twice its numeric value when it is a
\* number or the decimal text of one.
SentDuration == OptionsDuration(event.body.options)
IsNumeric(v) ==
  \/ v.t = "number" /\ ~v.nan
  \/ v.t = "string" /\ \E h \in Halves : NumberToChars(Num(h)) = v.s
TwiceValue(v) ==
  IF v.t = "number" THEN v.h ELSE CHOOSE h \in Halves : NumberToChars(Num(h)) = v.s
PlanMax == IF license.check.plan = "free" THEN 5 ELSE 7
PlanResolved == ReachedLicenseGate /\ license.checked /\ license.check.valid

(***************************************************************************)
(* C1: every POST made while the provider access key is absent from the    *)
(* configuration is answered 500 with error MISSING_API_KEY, and no        *)
(* outbound call is made, whatever the body contains.                      *)
(***************************************************************************)
C1_MissingKey ==
  (Invoked /\ IsPost /\ KeyAbsent) =>
    /\ Returned
    /\ response.statusCode = 500
    /\ ErrorCode("MISSING_API_KEY")
    /\ NoOutboundCall

C1_Witness ==
  /\ Returned /\ IsPost /\ apiKey = Undefined
  /\ event.body.kind = "object" /\ UrlPresent
  /\ response.statusCode = 500 /\ ErrorCode("MISSING_API_KEY")

(***************************************************************************)
(* C2: the effective license token is the x-plugin-license header if       *)
(* present, else the body's license_key, else "free"; at the license gate  *)
(* a token that is empty or shorter than 5 resolves to plan free, one of   *)
(* length 10 or more to plan starter, and one of length 5 to 9 is answered *)
(* 403 without an outbound call.                                           *)
(***************************************************************************)
C2_LicenseGate ==
  /\ (Invoked /\ license.resolved) => license.token = CarriedToken
  /\ ReachedLicenseGate =>
       /\ license.checked
       /\ TokenLen < 5 => (license.check.valid /\ license.check.plan = "free")
       /\ TokenLen >= 10 => (license.check.valid /\ license.check.plan = "starter")
       /\ (TokenLen >= 5 /\ TokenLen <= 9) =>
            (Returned /\ response.statusCode = 403 /\ NoOutboundCall)

C2_Witness ==
  /\ ReachedLicenseGate /\ Returned
  /\ event.xPluginLicense = Undefined /\ TokenLen = 9
  /\ response.statusCode = 403

(***************************************************************************)
(* C3: whenever the plan is resolved and the duration the caller sent      *)
(* exceeds the plan's max (free 5, starter 7), the response is 400         *)
(* DURATION_LIMIT_EXCEEDED with max_duration the plan's max and            *)
(* requested_duration the value the caller sent, and no outbound call is   *)
(* made.                                                                   *)
(***************************************************************************)
C3_DurationRejected ==
  (PlanResolved /\ IsNumeric(SentDuration) /\ TwiceValue(SentDuration) > 2 * PlanMax) =>
    /\ Returned
    /\ response.statusCode = 400
    /\ ErrorCode("DURATION_LIMIT_EXCEEDED")
    /\ response.body.max_duration = Int2Num(PlanMax)
    /\ ToChars(response.body.requested_duration) = ToChars(SentDuration)
    /\ NoOutboundCall

(***************************************************************************)
(* C4: whenever the request passes the gates with a duration not above the *)
(* plan's max, the duration parameter of the outbound call is the duration *)
(* the caller sent, unchanged (0, negative and non-integer values          *)
(* included).                                                              *)
(***************************************************************************)
C4_DurationForwarded ==
  (PlanResolved /\ IsNumeric(SentDuration) /\ TwiceValue(SentDuration) <= 2 * PlanMax) =>
    /\ ~NoOutboundCall
    /\ outbound[1].duration = ToChars(SentDuration)

(***************************************************************************)
(* C5: when the provider never responds, the timer fires, the call is      *)
(* aborted and the handler answers 504 with a message naming the           *)
(* configured timeout, no later than timeout + grace after the call        *)
(* started.                                                                *)
(***************************************************************************)
ProviderSilent == ~NoOutboundCall /\ upstream.state = "none"
C5_Timeout504 ==
  (Returned /\ ProviderSilent) =>
    /\ aborted
    /\ response.statusCode = 504
    /\ \E i \in 1..Len(response.body.message) :
         response.body.message[i] = NatToChars(ApiTimeout)[1]
    /\ now - startTime <= ApiTimeout + 1

(***************************************************************************)
(* C6: a 2xx answer with a zero-length body is answered 500, never 200     *)
(* with success true; a 200 success response is produced only after a 2xx  *)
(* answer with a non-empty body.                                           *)
(***************************************************************************)
Upstream2xx == upstream.state = "body" /\ upstream.status \in 200..299
C6_EmptyBody ==
  /\ (Returned /\ Upstream2xx /\ upstream.data = <<>>) =>
       (response.statusCode = 500 /\ ~IsSuccess200)
  /\ (Returned /\ IsSuccess200) => (Upstream2xx /\ upstream.data # <<>>)

C6_Witness ==
  /\ Returned /\ Upstream2xx /\ upstream.data = <<>>
  /\ response.statusCode = 500

(***************************************************************************)
(* C7: for every non-empty payload of N bytes the provider returns with a  *)
(* 2xx status, the 200 response's video_data base64-decodes to exactly     *)
(* those bytes in order, and its file_size is N.                           *)
(***************************************************************************)
C7_Base64RoundTrip ==
  (Returned /\ Upstream2xx /\ upstream.data # <<>> /\ response.statusCode = 200) =>
    /\ Has(response.body, "video_data")
    /\ Base64Decode(response.body.video_data) = upstream.data
    /\ response.body.file_size = Len(upstream.data)

C7_Witness ==
  /\ Returned /\ Upstream2xx /\ response.statusCode = 200
  /\ Len(upstream.data) >= 4
  /\ \E i \in 1..Len(upstream.data) : upstream.data[i] = 255
  /\ \E i \in 1..Len(upstream.data) : upstream.data[i] = 0

(***************************************************************************)
(* C8: every POST whose JSON body has no url (absent or empty) is answered *)
(* 400 with the machine-readable error code MISSING_URL, and no outbound   *)
(* call is made.                                                           *)
(***************************************************************************)
C8_MissingUrl ==
  (Invoked /\ IsPost /\ ~KeyAbsent /\ event.body.kind \in {"empty", "object"}
     /\ ~UrlPresent) =>
    /\ Returned
    /\ response.statusCode = 400
    /\ ErrorCode("MISSING_URL")
    /\ NoOutboundCall

(***************************************************************************)
(* C9: only POST proceeds past the method check: OPTIONS is answered 200,  *)
(* any method other than POST and OPTIONS 405, and in both cases the body  *)
(* is never parsed and no outbound call is made.                           *)
(***************************************************************************)
C9_MethodCheck ==
  Invoked =>
    /\ event.httpMethod = "OPTIONS" =>
         (Returned /\ response.statusCode = 200 /\ ~bodyParsed /\ NoOutboundCall)
    /\ event.httpMethod \notin {"POST", "OPTIONS"} =>
         (Returned /\ response.statusCode = 405 /\ ~bodyParsed /\ NoOutboundCall)
    /\ (bodyParsed \/ ~NoOutboundCall \/ license.resolved) => IsPost

C9_Witness ==
  /\ Returned /\ event.httpMethod = "DELETE" /\ apiKey # Undefined
  /\ event.body.kind = "object"
  /\ response.statusCode = 405

(***************************************************************************)
(* C10: every POST whose body is not well-formed JSON is answered 400 with *)
(* error code JSON_PARSE_ERROR, not 500, and no outbound call is made.     *)
(***************************************************************************)
C10_JsonParseError ==
  (Invoked /\ IsPost /\ ~KeyAbsent /\ event.body.kind = "malformed") =>
    /\ Returned
    /\ response.statusCode = 400
    /\ ErrorCode("JSON_PARSE_ERROR")
    /\ NoOutboundCall

(***************************************************************************)
(* C11: every POST whose url is present but does not parse as an absolute  *)
(* URL is answered 400 with error code INVALID_URL, and no outbound call   *)
(* is made for it.                                                         *)
(***************************************************************************)
\* The url values of the model that new URL(url) accepts.
AbsoluteUrls == {GoodUrl}
C11_InvalidUrl ==
  (Invoked /\ IsPost /\ ~KeyAbsent /\ event.body.kind = "object" /\ UrlPresent
     /\ event.body.url \notin AbsoluteUrls) =>
    /\ Returned
    /\ response.statusCode = 400
    /\ ErrorCode("INVALID_URL")
    /\ NoOutboundCall

(***************************************************************************)
(* C12: when the provider answers the outbound call with a non-2xx status  *)
(* S and an error body B, the handler's response status equals S and the   *)
(* response message includes B.                                            *)
(***************************************************************************)
\* The text part occurs in the text msg (both are sequences of chunks).
Includes(msg, part) ==
  \E i \in 0..(Len(msg) - Len(part)) : SubSeq(msg, i + 1, i + Len(part)) = part
ProviderErrorAnswered ==
  Returned /\ upstream.state = "body" /\ ~ResponseOk(upstream.status)
C12_ProviderStatus ==
  ProviderErrorAnswered =>
    /\ response.statusCode = upstream.status
    /\ Includes(response.body.message, upstream.data)

(***************************************************************************)
(* C13: the validate-license POST endpoint and the license gate of         *)
(* create-recording classify every key identically: a key is answered     *)
(* valid with status 200 by validate-license exactly when validateLicense  *)
(* of create-recording accepts it, with status 403 exactly when it rejects *)
(* it, and with the same plan (keys shorter than 5 and keys of length      *)
(* exactly 10 included).                                                   *)
(***************************************************************************)
Validated == validation.pc = "done"
ValidatedKey ==
  /\ Validated
  /\ validation.event.httpMethod = "POST"
  /\ validation.event.body.kind = "object"
C13_SameClassification ==
  ValidatedKey =>
    LET gate == validateLicense(validation.event.body.license_key)
        answer == validation.response
    IN  /\ (answer.statusCode = 200) <=> gate.valid
        /\ (answer.statusCode = 403) <=> ~gate.valid
        /\ answer.body.valid = Bool(gate.valid)
        /\ gate.valid => answer.body.plan = gate.plan

(***************************************************************************)
(* C14: every response of both handlers, on every return path, carries the *)
(* headers Access-Control-Allow-Origin: * and Content-Type:                *)
(* application/json.                                                       *)
(***************************************************************************)
CarriesCors(resp) ==
  /\ Has(resp, "headers")
  /\ resp.headers["Access-Control-Allow-Origin"] = "*"
  /\ resp.headers["Content-Type"] = "application/json"
C14_CorsHeaders ==
  /\ Returned => CarriesCors(response)
  /\ Validated => CarriesCors(validation.response)

\* The catch of create-recording answered (the body was no JSON), with the
\* headers.
C14_Witness ==
  /\ Returned /\ IsPost /\ ~KeyAbsent
  /\ event.body.kind \in {"malformed", "null"}
  /\ response.statusCode = 500
  /\ CarriesCors(response)

(***************************************************************************)
(* C15: no response body of create-recording ever contains the provider    *)
(* access key, the failures whose message derives from the outbound        *)
(* request URL included.                                                   *)
(***************************************************************************)
C15_KeyNotLeaked ==
  (Returned /\ ~KeyAbsent /\ Has(response.body, "message")) =>
    ~Includes(response.body.message, apiKey.s)

(***************************************************************************)
(* C16: a usage record is emitted exactly once for every invocation whose  *)
(* provider call succeeded and never otherwise; it is emitted after the    *)
(* provider's success; and a failure while emitting it never changes the   *)
(* response: the caller still gets the 200.                                *)
(***************************************************************************)
ProviderSucceeded == upstream.state = "body" /\ ResponseOk(upstream.status) /\ upstream.data # <<>>
C16_UsageRecord ==
  /\ ~(Returned /\ ProviderSucceeded) => usageLog = <<>>
  /\ (Returned /\ ProviderSucceeded) => (Len(usageLog) = 1 /\ IsSuccess200)

(***************************************************************************)
(* C17: in callScreenshotOneAPI the abort timer and the provider's         *)
(* response race into a single outcome in every interleaving: when the     *)
(* timer fires first the call ends as the timeout failure and a late       *)
(* response is discarded; when the response arrives first the timer is     *)
(* cancelled and can no longer cause a timeout.                            *)
(***************************************************************************)
TimedOut ==
  /\ Returned
  /\ Has(response.body, "message")
  /\ Includes(response.body.message, TimeoutResult.error)
TimerFirst == aborted /\ upstream.state = "none"
ResponseFirst == upstream.state \in {"headers", "body", "readerror"}
RaceStep ==
  /\ TimerFirst' => (TimedOut' /\ ~timer'.armed)
  /\ TimerFirst => (upstream' = upstream /\ response' = response)
  /\ ResponseFirst' => (~timer'.armed /\ ~aborted' /\ ~TimedOut')
  /\ Returned => response' = response
C17_RaceSingleOutcome == [][RaceStep]_vars

\* The response arrived first, the time the timer was due has passed, and the
\* call did not end as a timeout.
C17_Witness ==
  /\ Returned /\ upstream.state = "body"
  /\ now >= timer.due
  /\ ~aborted /\ ~TimedOut

(***************************************************************************)
(* C18: in every invocation at most one outbound call is made, and it is   *)
(* made only when the method is POST, the access key is configured, the    *)
(* body parsed, url is present, the license token is valid and the         *)
(* duration the caller sent does not exceed the resolved plan's max (so    *)
(* the duration sent to the provider is never above 7, nor above 5 for the *)
(* free plan); after a failed or timed-out call no second call is made and *)
(* the failure is returned to the caller.                                  *)
(***************************************************************************)
CallMade == outbound # <<>>
DurationToProvider == parseInt(Str(outbound[1].duration))
C18_OneGuardedCall ==
  /\ Len(outbound) <= 1
  /\ CallMade =>
       /\ IsPost /\ ~KeyAbsent /\ bodyParsed /\ JsonBody /\ UrlPresent
       /\ license.checked /\ license.check.valid
       /\ IsNumeric(SentDuration) => TwiceValue(SentDuration) <= 2 * PlanMax
       /\ ~Greater(DurationToProvider, Int2Num(7))
       /\ license.check.plan = "free" => ~Greater(DurationToProvider, Int2Num(5))
  /\ (Returned /\ CallMade /\ ~ProviderSucceeded) =>
       (response.statusCode >= 400 /\ ~IsSuccess200)

(***************************************************************************)
(* C19: the local cancellation timer is strictly longer than the timeout   *)
(* sent to the provider: the provider's timeout plus one second of grace.  *)
(***************************************************************************)
TimerSeconds == timer.due - startTime
ProviderTimeout == DigitsToNat(outbound[1].timeout, 0)
C19_TimerGrace ==
  CallMade =>
    /\ TimerSeconds > ProviderTimeout
    /\ TimerSeconds = ProviderTimeout + 1

(***************************************************************************)
(* C20: every invocation of create-recording returns exactly one HTTP      *)
(* response and never throws or hangs, for every request (a body that is   *)
(* null or no object included) and every behaviour of the provider (no     *)
(* response, a network error, an error status, headers followed by a body  *)
(* that stalls): the abort timer bounds the whole outbound call, the body  *)
(* read included, so the handler is never still waiting once the time the  *)
(* timer was set for has passed.                                           *)
(***************************************************************************)
Waiting == pc \in {"fetch", "read"}
C20_AlwaysReturns ==
  /\ Invoked => (Returned \/ Waiting)
  /\ Returned => (response.statusCode \in 200..599 /\ Has(response, "body"))
  /\ Waiting => now <= timer.due

====
